---- MODULE Spec2Model ----
(***************************************************************************)
(* Guest Faculty Checklist (app_v5_excel.py): the record store kept in     *)
(* faculty_checklist_data.csv, the user store kept in users_data.csv and   *)
(* the Streamlit sessions that read and write them.                        *)
(*                                                                         *)
(* A data frame is a sequence of rows; a CSV file is the sequence of rows  *)
(* of text cells that to_csv wrote.  Every handler of the script is one    *)
(* action: the whole script run the click causes, a following st.rerun()   *)
(* included.  The one exception is "Export Data", which writes a workbook  *)
(* into the directory all sessions share and then opens it by name: the    *)
(* script runs of the sessions are threads of one server, so the two file  *)
(* operations are two steps.                                               *)
(***************************************************************************)
EXTENDS Integers, Sequences, FiniteSets, TLC

VARIABLES data_file, users_file, export_dir, session, last, steps

vars == <<data_file, users_file, export_dir, session, last, steps>>

(***************************************************************************)
(* Bounds of the model.                                                    *)
(***************************************************************************)
\* handler runs explored from the start of the process
MaxSteps == 4
\* how many of the 22 default checklist items the seed content holds
NumItems == 2

Sessions == {"s1", "s2"}

(***************************************************************************)
(* Values.                                                                 *)
(***************************************************************************)
\* pandas' missing value, as read_csv returns it for an empty or NA cell
NaN == "<NaN>"
\* the cell texts of this model that pandas.read_csv reads as missing
NAValues == {"", "NA", "nan"}

\* datetime.now(): at start-up, and at any later handler run
StartupTime == "t0"
Now == "t1"
\* datetime.now().strftime("%Y-%m-%d"), and another date a date_input can give
Today == "2024-01-01"
Dates == {Today, "2024-01-02"}

default_checklist_items ==
    SubSeq(<<"Letter to Guest Faculty", "Letter to Boss", "Tour Program",
             "Room Book", "Inbound Vehicle", "Outbound Vehicle">>, 1, NumItems)

SampleRemark ==
    "This is a sample entry. Add your own faculty from 'Manage Faculty' section."

\* what a user can type into a name field, and str.strip() of it
NameInputs == {"Sample Faculty", "A", " A ", "NA", " "}
strip(t) == CASE t = " A " -> "A"
              [] t = " "   -> ""
              [] OTHER     -> t
StatusOptions == <<"Pending", "Done", "NA">>

Usernames == {"admin", "u1", "NA"}
Passwords == {"admin123", "pw"}

\* hashlib.sha256(password).hexdigest(): one digest per password, none of
\* them equal to a password
hash_password(password) ==
    CASE password = "admin123" -> "240be518"
      [] password = "pw"       -> "30c952fa"
      [] OTHER                 -> "e3b0c442"

(***************************************************************************)
(* Sequences.                                                              *)
(***************************************************************************)
Range(f) == {f[i] : i \in DOMAIN f}

(***************************************************************************)
(* CSV: DataFrame.to_csv writes a missing value as an empty cell;          *)
(* pandas.read_csv reads every cell in NAValues as missing.                *)
(***************************************************************************)
to_csv(df) ==
    [i \in DOMAIN df |->
        [c \in DOMAIN df[i] |-> IF df[i][c] = NaN THEN "" ELSE df[i][c]]]

read_csv(file) ==
    [i \in DOMAIN file |->
        [c \in DOMAIN file[i] |->
            IF file[i][c] \in NAValues THEN NaN ELSE file[i][c]]]

\* pandas' ==: a missing value equals nothing
Eq(a, b) == a # NaN /\ b # NaN /\ a = b

(***************************************************************************)
(* Record store.                                                           *)
(***************************************************************************)
Record(owner, name, designation, session_name, session_date, item, status, remarks, stamp, by) ==
    [Owner |-> owner, Name |-> name, Designation |-> designation,
     SessionName |-> session_name, SessionDate |-> session_date,
     Item |-> item, Status |-> status, Remarks |-> remarks,
     LastUpdated |-> stamp, UpdatedBy |-> by]

\* initialize_data with no Excel workbook beside the script: the records of
\* the sample visit, as written by df.to_csv
initialize_data(stamp) ==
    to_csv([i \in DOMAIN default_checklist_items |->
        Record("admin", "Sample Faculty", "Guest Speaker", "Sample Session",
               Today, default_checklist_items[i], "Pending", SampleRemark,
               stamp, "System")])

\* What is at the path of the data file when it is not a table: nothing,
\* a file of no bytes, or bytes that pandas.read_csv rejects with a
\* ParserError or a UnicodeDecodeError (both are ValueErrors).
Missing == <<[Corrupt |-> "missing"]>>
ZeroLength == <<[Corrupt |-> "zero-length"]>>
Unparsable == <<[Corrupt |-> "unparsable"]>>

\* load_data raises, or read_csv raises inside it
Unreadable(file) == Len(file) = 1 /\ "Corrupt" \in DOMAIN file[1]

\* load_data without its except clause: what cannot be read is left as it
\* is and no frame is returned
load_data_uncaught(file) ==
    IF Unreadable(file)
    THEN [df |-> <<>>, file |-> file]
    ELSE IF Len(read_csv(file)) = 0
    THEN [df |-> read_csv(initialize_data(Now)), file |-> initialize_data(Now)]
    ELSE [df |-> read_csv(file), file |-> file]

\* load_data: the frame read and the file it leaves behind.  A file that
\* cannot be read, or whose table has no rows, is removed and written again
\* from initialize_data.
load_data(file) ==
    IF Unreadable(file)
    THEN [df |-> read_csv(initialize_data(Now)), file |-> initialize_data(Now)]
    ELSE IF Len(read_csv(file)) = 0
    THEN [df |-> read_csv(initialize_data(Now)), file |-> initialize_data(Now)]
    ELSE [df |-> read_csv(file), file |-> file]

save_data(df) == to_csv(df)

\* the distinct values of a column, in order of first appearance
RECURSIVE unique(_)
unique(col) ==
    IF col = <<>> THEN <<>>
    ELSE LET rest == unique(SubSeq(col, 1, Len(col) - 1))
             x == col[Len(col)]
         IN  IF x \in Range(rest) THEN rest ELSE Append(rest, x)

IsVisit(r, owner, name, session_date) ==
    Eq(r.Owner, owner) /\ Eq(r.Name, name) /\ Eq(r.SessionDate, session_date)

add_new_faculty(file, owner, name, designation, session_name, session_date) ==
    LET ld == load_data(file)
        df == ld.df
        existing == SelectSeq(df, LAMBDA r : IsVisit(r, owner, strip(name), session_date))
        checklist_items == unique([i \in DOMAIN df |-> df[i].Item])
        new_records == [i \in DOMAIN checklist_items |->
            Record(owner, strip(name), strip(designation), strip(session_name),
                   session_date, checklist_items[i], "Pending", "", Now, owner)]
        out == df \o new_records
    IN  IF strip(name) = ""
        THEN [msg |-> "Name cannot be empty", df |-> <<>>, file |-> ld.file]
        ELSE IF existing # <<>>
        THEN [msg |-> "Faculty with this name and session date already exists",
              df |-> <<>>, file |-> ld.file]
        ELSE [msg |-> "Success", df |-> out, file |-> save_data(out)]

delete_faculty(file, owner, name, session_date) ==
    LET ld == load_data(file)
        out == SelectSeq(ld.df, LAMBDA r : ~IsVisit(r, owner, name, session_date))
    IN  [msg |-> "Success", df |-> out, file |-> save_data(out)]

edit_faculty(file, owner, old_name, old_session_date, new_name, new_designation, new_session_name, new_session_date) ==
    LET ld == load_data(file)
        df == ld.df
        existing == SelectSeq(df, LAMBDA r :
            /\ Eq(r.Owner, owner)
            /\ Eq(r.Name, strip(new_name))
            /\ Eq(r.SessionDate, new_session_date)
            /\ ~(Eq(r.Name, old_name) /\ Eq(r.SessionDate, old_session_date)))
        mask == {i \in DOMAIN df : IsVisit(df[i], owner, old_name, old_session_date)}
        out == [i \in DOMAIN df |->
            IF i \in mask
            THEN [df[i] EXCEPT !.Name = strip(new_name),
                               !.Designation = strip(new_designation),
                               !.SessionName = strip(new_session_name),
                               !.SessionDate = new_session_date,
                               !.LastUpdated = Now,
                               !.UpdatedBy = owner]
            ELSE df[i]]
    IN  IF strip(new_name) = ""
        THEN [msg |-> "Name cannot be empty", df |-> <<>>, file |-> ld.file]
        ELSE IF existing # <<>>
        THEN [msg |-> "Faculty with this name and session date already exists",
              df |-> <<>>, file |-> ld.file]
        ELSE IF mask = {}
        THEN [msg |-> "Faculty not found", df |-> <<>>, file |-> ld.file]
        ELSE [msg |-> "Success", df |-> out, file |-> save_data(out)]

\* round(done / total_items * 100, 1), in tenths of a percent (ties to even)
round1(done, total_items) ==
    LET q == (done * 1000) \div total_items
        twice == 2 * ((done * 1000) % total_items)
    IN  IF twice > total_items \/ (twice = total_items /\ q % 2 = 1)
        THEN q + 1 ELSE q

\* get_faculty_summary with the N/A rows left out of the denominator
get_faculty_summary_active(df) ==
    LET faculty_list == unique([i \in DOMAIN df |->
            <<df[i].Owner, df[i].Name, df[i].SessionDate, df[i].Designation,
              df[i].SessionName>>])
    IN  [k \in DOMAIN faculty_list |->
            LET faculty == faculty_list[k]
                faculty_data == SelectSeq(df, LAMBDA r :
                    IsVisit(r, faculty[1], faculty[2], faculty[3]))
                done == Len(SelectSeq(faculty_data, LAMBDA r : Eq(r.Status, "Done")))
                pending == Len(SelectSeq(faculty_data, LAMBDA r : Eq(r.Status, "Pending")))
                na == Len(SelectSeq(faculty_data, LAMBDA r : Eq(r.Status, "NA")))
                total_items == done + pending
            IN  [Owner |-> faculty[1], Name |-> faculty[2],
                 Designation |-> faculty[4], SessionName |-> faculty[5],
                 SessionDate |-> faculty[3], TotalItems |-> total_items,
                 Done |-> done, Pending |-> pending, NA |-> na,
                 Progress |-> IF total_items > 0 THEN round1(done, total_items)
                              ELSE 0]]

get_faculty_summary(df) ==
    LET faculty_list == unique([i \in DOMAIN df |->
            <<df[i].Owner, df[i].Name, df[i].SessionDate, df[i].Designation,
              df[i].SessionName>>])
    IN  [k \in DOMAIN faculty_list |->
            LET faculty == faculty_list[k]
                faculty_data == SelectSeq(df, LAMBDA r :
                    IsVisit(r, faculty[1], faculty[2], faculty[3]))
                total_items == Len(faculty_data)
                done == Len(SelectSeq(faculty_data, LAMBDA r : Eq(r.Status, "Done")))
                pending == Len(SelectSeq(faculty_data, LAMBDA r : Eq(r.Status, "Pending")))
                na == Len(SelectSeq(faculty_data, LAMBDA r : Eq(r.Status, "NA")))
            IN  [Owner |-> faculty[1], Name |-> faculty[2],
                 Designation |-> faculty[4], SessionName |-> faculty[5],
                 SessionDate |-> faculty[3], TotalItems |-> total_items,
                 Done |-> done, Pending |-> pending, NA |-> na,
                 Progress |-> IF total_items > 0 THEN round1(done, total_items)
                              ELSE 0]]

(***************************************************************************)
(* User store.                                                             *)
(***************************************************************************)
None == "<None>"

\* a bool of the active column, named by the text to_csv writes for it
PyTrue == "True"
PyFalse == "False"

User(username, password_hash, role, full_name, email, created, active) ==
    [username |-> username, password |-> password_hash, role |-> role,
     full_name |-> full_name, email |-> email, created_date |-> created,
     active |-> active]

\* initialize_users, when users_data.csv does not exist yet
initialize_users ==
    to_csv(<<User("admin", hash_password("admin123"), "admin", "Administrator",
           "admin@example.com", StartupTime, PyTrue)>>)

load_users(file) == read_csv(file)

save_users(df) == to_csv(df)

HasUser(users_df, username) ==
    \E i \in DOMAIN users_df : Eq(users_df[i].username, username)

\* index[0] / iloc[0] of the rows with this username
FirstUser(users_df, username) ==
    CHOOSE i \in DOMAIN users_df :
        /\ Eq(users_df[i].username, username)
        /\ \A j \in 1..(i - 1) : ~Eq(users_df[j].username, username)

authenticate_user(file, username, password) ==
    LET users_df == load_users(file)
    IN  IF ~HasUser(users_df, username)
        THEN [success |-> FALSE, role |-> None, full_name |-> None]
        ELSE LET user == users_df[FirstUser(users_df, username)]
             IN  IF user.active = PyFalse
                 THEN [success |-> FALSE, role |-> None,
                       full_name |-> "Account is inactive"]
                 ELSE IF user.password = hash_password(password)
                 THEN [success |-> TRUE, role |-> user.role,
                       full_name |-> user.full_name]
                 ELSE [success |-> FALSE, role |-> None,
                       full_name |-> "Invalid password"]

add_user(file, username, password, role, full_name, email) ==
    LET users_df == load_users(file)
        new_user == User(username, hash_password(password), role, full_name,
                         email, Now, PyTrue)
    IN  IF HasUser(users_df, username)
        THEN [success |-> FALSE, msg |-> "Username already exists", file |-> file]
        ELSE [success |-> TRUE, msg |-> "User added successfully",
              file |-> save_users(Append(users_df, new_user))]

\* a Python value is truthy unless it is None or the empty string
Truthy(v) == v # None /\ v # ""

\* update_user storing the password as typed
update_user_plain(file, username, full_name, email, password, active) ==
    LET users_df == load_users(file)
        idx == FirstUser(users_df, username)
        u0 == users_df[idx]
        u1 == IF Truthy(full_name) THEN [u0 EXCEPT !.full_name = full_name] ELSE u0
        u2 == IF Truthy(email) THEN [u1 EXCEPT !.email = email] ELSE u1
        u3 == IF Truthy(password)
              THEN [u2 EXCEPT !.password = password] ELSE u2
        u4 == IF active # None THEN [u3 EXCEPT !.active = active] ELSE u3
    IN  IF ~HasUser(users_df, username)
        THEN [success |-> FALSE, msg |-> "User not found", file |-> file]
        ELSE [success |-> TRUE, msg |-> "User updated successfully",
              file |-> save_users([users_df EXCEPT ![idx] = u4])]

update_user(file, username, full_name, email, password, active) ==
    LET users_df == load_users(file)
        idx == FirstUser(users_df, username)
        u0 == users_df[idx]
        u1 == IF Truthy(full_name) THEN [u0 EXCEPT !.full_name = full_name] ELSE u0
        u2 == IF Truthy(email) THEN [u1 EXCEPT !.email = email] ELSE u1
        u3 == IF Truthy(password)
              THEN [u2 EXCEPT !.password = hash_password(password)] ELSE u2
        u4 == IF active # None THEN [u3 EXCEPT !.active = active] ELSE u3
    IN  IF ~HasUser(users_df, username)
        THEN [success |-> FALSE, msg |-> "User not found", file |-> file]
        ELSE [success |-> TRUE, msg |-> "User updated successfully",
              file |-> save_users([users_df EXCEPT ![idx] = u4])]

\* delete_user without its test for the admin account
delete_user_unguarded(ufile, dfile, username) ==
    LET users_df == load_users(ufile)
        ld == load_data(dfile)
        df == SelectSeq(ld.df, LAMBDA r : ~Eq(r.Owner, username))
        kept == SelectSeq(users_df, LAMBDA u : ~Eq(u.username, username))
    IN  [success |-> TRUE, msg |-> "User deleted successfully",
         users |-> save_users(kept), data |-> save_data(df)]

\* pandas' != keeps a row whose cell is missing
delete_user(ufile, dfile, username) ==
    LET users_df == load_users(ufile)
        ld == load_data(dfile)
        df == SelectSeq(ld.df, LAMBDA r : ~Eq(r.Owner, username))
        kept == SelectSeq(users_df, LAMBDA u : ~Eq(u.username, username))
    IN  IF username = "admin"
        THEN [success |-> FALSE, msg |-> "Cannot delete admin account",
              users |-> ufile, data |-> dfile]
        ELSE [success |-> TRUE, msg |-> "User deleted successfully",
              users |-> save_users(kept), data |-> save_data(df)]

(***************************************************************************)
(* Sessions: st.session_state of each browser session, the page the menu   *)
(* radio of the session shows, the workbook its script run is exporting    *)
(* and the rows its download button holds.                                 *)
(***************************************************************************)
NoSession ==
    [logged_in |-> FALSE, username |-> None, role |-> None, full_name |-> None,
     has_df |-> FALSE, df |-> <<>>, menu |-> "Checklist Management",
     exporting |-> None, download |-> <<>>]

\* the rows of st.session_state.df the session's role lets it see (the
\* index labels of df = df[df['Owner'] == current_user])
Visible(ss) ==
    {i \in DOMAIN ss.df : ss.role = "admin" \/ Eq(ss.df[i].Owner, ss.username)}

\* faculty_list: the (Name, Session Date) pairs a selectbox offers and
\* selected_row can be found for (a missing name or date gives a missing
\* Display, which equals no option: iloc[0] raises IndexError)
faculty_list(ss) ==
    {sel \in {<<ss.df[i].Name, ss.df[i].SessionDate>> : i \in Visible(ss)} :
        sel[1] # NaN /\ sel[2] # NaN}

\* faculty_df: the visible rows of the selected name and date
faculty_df(ss, sel) ==
    {i \in Visible(ss) : Eq(ss.df[i].Name, sel[1]) /\ Eq(ss.df[i].SessionDate, sel[2])}

\* display_df: faculty_df under the "Filter by Status" selectbox
display_df(ss, sel, filter_status) ==
    {i \in faculty_df(ss, sel) :
        filter_status = "All" \/ Eq(ss.df[i].Status, filter_status)}

\* the rows of a frame at the index labels idx, in order
Rows(df, idx) == SelectSeq([i \in DOMAIN df |-> [at |-> i, row |-> df[i]]],
                        LAMBDA e : e.at \in idx)

Take(df, idx) == [k \in DOMAIN Rows(df, idx) |-> Rows(df, idx)[k].row]

\* what the last handler run was, what it reported and, for delete_user, the
\* record store file as the function left it
Op(op, s, result, data) == [op |-> op, s |-> s, result |-> result, data |-> data]

\* the "User Statistics" tab, rendered by every run that shows User
\* Management: it calls load_data()
UserStatisticsTab(file) == load_data(file).file

\* the user store once the administrator has added the account u1
UsersWithU1 ==
    add_user(initialize_users, "u1", "pw", "user", "User One", "u1@example.com").file

\* Start of the process: both files as initialize_users and initialize_data
\* write them, or as an earlier run of the installation left them (u1 was
\* added; u1 added a visit), and no session logged in.
Init ==
    /\ \E start \in {<<initialize_users, initialize_data(StartupTime)>>,
                     <<UsersWithU1, initialize_data(StartupTime)>>,
                     <<UsersWithU1,
                       add_new_faculty(initialize_data(StartupTime), "u1", "A",
                                       "Prof", "S1", Today).file>>} :
            /\ users_file = start[1]
            /\ data_file = start[2]
    /\ export_dir = <<>>
    /\ session = [s \in Sessions |-> NoSession]
    /\ last = Op("start", "none", "none", <<>>)
    /\ steps = 0

\* a handler runs in session s, whose last script run has ended, and steps
\* counts the runs: sessions are interchangeable, so s2 is used only once s1
\* has been
MayRun(s) ==
    /\ s = "s2" => session["s1"].has_df
    /\ session[s].exporting = None
    /\ steps' = steps + 1

\* the Login button, and on success the rerun that loads st.session_state.df
\* and shows the first page of the menu
Login(s, username, password) ==
    LET ss == session[s]
        auth == authenticate_user(users_file, username, password)
        ld == load_data(data_file)
    IN  /\ MayRun(s)
        /\ ~ss.logged_in
        /\ username # "" /\ password # ""
        /\ last' = Op("login", s, IF auth.success THEN "Success" ELSE auth.full_name,
                      <<>>)
        /\ users_file' = users_file
        /\ IF auth.success
           THEN /\ session' = [session EXCEPT ![s] =
                       [logged_in |-> TRUE, username |-> username,
                        role |-> auth.role, full_name |-> auth.full_name,
                        has_df |-> TRUE,
                        df |-> IF ss.has_df THEN ss.df ELSE ld.df,
                        menu |-> "Checklist Management",
                        exporting |-> None, download |-> <<>>]]
                /\ data_file' = IF ss.has_df THEN data_file ELSE ld.file
           ELSE UNCHANGED <<session, data_file>>
        /\ UNCHANGED export_dir

\* a Logout that clears the flag and leaves the identity in the session
LogoutKeepsIdentity(s) ==
    /\ MayRun(s)
    /\ session[s].logged_in
    /\ last' = Op("logout", s, "Success", <<>>)
    /\ session' = [session EXCEPT ![s] =
            [@ EXCEPT !.logged_in = FALSE, !.download = <<>>]]
    /\ UNCHANGED <<data_file, users_file, export_dir>>

Logout(s) ==
    /\ MayRun(s)
    /\ session[s].logged_in
    /\ last' = Op("logout", s, "Success", <<>>)
    /\ session' = [session EXCEPT ![s] =
            [@ EXCEPT !.logged_in = FALSE, !.username = None, !.role = None,
                      !.full_name = None, !.download = <<>>]]
    /\ UNCHANGED <<data_file, users_file, export_dir>>

(***************************************************************************)
(* User Management page (admin sessions).  Each handler runs inside        *)
(* show_admin_user_management, whose last tab calls load_data().           *)
(***************************************************************************)
IsAdminSession(s) == session[s].logged_in /\ session[s].role = "admin"

OnUserManagement(s) == IsAdminSession(s) /\ session[s].menu = "User Management"

\* the run renders a page other than User Management; the download button
\* of an earlier run is gone
OnOtherPage(s) ==
    [session EXCEPT ![s].menu = "Checklist Management", ![s].download = <<>>]

\* the menu radio set to "User Management": the page is rendered
ShowUserManagement(s) ==
    /\ MayRun(s)
    /\ IsAdminSession(s)
    /\ session[s].menu # "User Management"
    /\ last' = Op("show_users", s, "Success", <<>>)
    /\ data_file' = UserStatisticsTab(data_file)
    /\ session' = [session EXCEPT ![s].menu = "User Management",
                                  ![s].download = <<>>]
    /\ UNCHANGED <<users_file, export_dir>>

AddUser(s, username, password, role, full_name, email) ==
    LET r == add_user(users_file, username, password, role, full_name, email)
    IN  /\ MayRun(s)
        /\ OnUserManagement(s)
        /\ username # "" /\ password # "" /\ full_name # "" /\ email # ""
        /\ last' = Op("add_user", s, r.msg, <<>>)
        /\ users_file' = r.file
        /\ data_file' = UserStatisticsTab(data_file)
        /\ UNCHANGED <<session, export_dir>>

\* "Update User": the name and e-mail fields hold the stored values unless
\* retyped, a blank password field passes None, the checkbox passes a bool
UpdateUser(s, edit_username, edit_password, edit_active) ==
    LET users_df == load_users(users_file)
        user_data == users_df[FirstUser(users_df, edit_username)]
        r == update_user(users_file, edit_username, user_data.full_name,
                         user_data.email,
                         IF edit_password # "" THEN edit_password ELSE None,
                         edit_active)
    IN  /\ MayRun(s)
        /\ OnUserManagement(s)
        /\ HasUser(users_df, edit_username)
        /\ last' = Op("update_user", s, r.msg, <<>>)
        /\ users_file' = r.file
        /\ data_file' = UserStatisticsTab(data_file)
        /\ UNCHANGED <<session, export_dir>>

\* what "Select User to Delete" holds: a username other than admin, or None
\* when there is none
DeleteChoices ==
    LET users_df == load_users(users_file)
        names == {users_df[i].username : i \in DOMAIN users_df} \ {"admin"}
    IN  IF names = {} THEN {None} ELSE names

\* "Delete User" calls delete_user(delete_username); delete_user is also
\* called here with "admin", the argument its own guard is written for.
\* last.data keeps the record store as delete_user returned, before the
\* page is rendered again.
DeleteUser(s, username) ==
    LET r == delete_user(users_file, data_file, username)
    IN  /\ MayRun(s)
        /\ OnUserManagement(s)
        /\ last' = Op("delete_user", s, r.msg, r.data)
        /\ users_file' = r.users
        /\ data_file' = UserStatisticsTab(r.data)
        /\ UNCHANGED <<session, export_dir>>

(***************************************************************************)
(* Manage Faculty page.                                                    *)
(***************************************************************************)
AddFaculty(s, new_name, new_designation, new_session_name, new_session_date) ==
    LET ss == session[s]
        r == add_new_faculty(data_file, ss.username, new_name, new_designation,
                             new_session_name, new_session_date)
    IN  /\ MayRun(s)
        /\ ss.logged_in
        /\ new_name # "" /\ new_designation # "" /\ new_session_name # ""
        /\ last' = Op("add_new_faculty", s, r.msg, <<>>)
        /\ data_file' = r.file
        /\ session' = IF r.msg = "Success"
                      THEN [OnOtherPage(s) EXCEPT ![s].df = r.df]
                      ELSE OnOtherPage(s)
        /\ UNCHANGED <<users_file, export_dir>>

EditFaculty(s, sel, edit_name, edit_designation, edit_session_name, edit_session_date) ==
    LET ss == session[s]
        r == edit_faculty(data_file, ss.username, sel[1], sel[2], edit_name,
                          edit_designation, edit_session_name, edit_session_date)
    IN  /\ MayRun(s)
        /\ ss.logged_in
        /\ sel \in faculty_list(ss)
        /\ edit_name # "" /\ edit_designation # "" /\ edit_session_name # ""
        /\ last' = Op("edit_faculty", s, r.msg, <<>>)
        /\ data_file' = r.file
        /\ session' = IF r.msg = "Success"
                      THEN [OnOtherPage(s) EXCEPT ![s].df = r.df]
                      ELSE OnOtherPage(s)
        /\ UNCHANGED <<users_file, export_dir>>

DeleteFaculty(s, sel) ==
    LET ss == session[s]
        r == delete_faculty(data_file, ss.username, sel[1], sel[2])
    IN  /\ MayRun(s)
        /\ ss.logged_in
        /\ sel \in faculty_list(ss)
        /\ last' = Op("delete_faculty", s, r.msg, <<>>)
        /\ data_file' = r.file
        /\ session' = [OnOtherPage(s) EXCEPT ![s].df = r.df]
        /\ UNCHANGED <<users_file, export_dir>>

(***************************************************************************)
(* Checklist Management page.  Both handlers change st.session_state.df,   *)
(* the frame the session holds, and write that frame to the file.          *)
(***************************************************************************)
BulkActions == {"Mark All as Done", "Mark All as Pending", "Clear All Remarks"}

bulk_update(ss, sel, bulk_action) ==
    LET df == ss.df
        mask == {i \in DOMAIN df :
                    /\ Eq(df[i].Name, sel[1])
                    /\ Eq(df[i].SessionDate, sel[2])
                    /\ (ss.role # "admin" => Eq(df[i].Owner, ss.username))}
        acted(r) ==
            CASE bulk_action = "Mark All as Done" -> [r EXCEPT !.Status = "Done"]
              [] bulk_action = "Mark All as Pending" -> [r EXCEPT !.Status = "Pending"]
              [] OTHER -> [r EXCEPT !.Remarks = ""]
    IN  [i \in DOMAIN df |->
            IF i \in mask
            THEN [acted(df[i]) EXCEPT !.LastUpdated = Now, !.UpdatedBy = ss.username]
            ELSE df[i]]

\* an Apply Bulk Action that loads the data file before it acts
BulkActionReloading(s, sel, bulk_action) ==
    LET ss == session[s]
        df == bulk_update([ss EXCEPT !.df = load_data(data_file).df], sel, bulk_action)
    IN  /\ MayRun(s)
        /\ ss.logged_in
        /\ sel \in faculty_list(ss)
        /\ last' = Op("bulk_update", s, "Success", <<>>)
        /\ session' = [OnOtherPage(s) EXCEPT ![s].df = df]
        /\ data_file' = save_data(df)
        /\ UNCHANGED <<users_file, export_dir>>

BulkAction(s, sel, bulk_action) ==
    LET ss == session[s]
        df == bulk_update(ss, sel, bulk_action)
    IN  /\ MayRun(s)
        /\ ss.logged_in
        /\ sel \in faculty_list(ss)
        /\ last' = Op("bulk_update", s, "Success", <<>>)
        /\ session' = [OnOtherPage(s) EXCEPT ![s].df = df]
        /\ data_file' = save_data(df)
        /\ UNCHANGED <<users_file, export_dir>>

\* st.text_input casts the value it is given to str
text_input(value) == IF value = NaN THEN "nan" ELSE value

\* "Save All Updates": every displayed row is written with what its two
\* widgets hold; the row `edited` holds what the user set, the others what
\* they were rendered with
save_all_updates(ss, shown, edited, status, remarks) ==
    [i \in DOMAIN ss.df |->
        IF i \in shown
        THEN LET st == IF i = edited THEN status ELSE ss.df[i].Status
                 rm == IF i = edited THEN remarks ELSE text_input(ss.df[i].Remarks)
             IN  [ss.df[i] EXCEPT !.Status = st,
                                  !.Remarks = IF Truthy(rm) THEN rm ELSE "",
                                  !.LastUpdated = Now,
                                  !.UpdatedBy = ss.username]
        ELSE ss.df[i]]

SaveAllUpdates(s, sel, filter_status, edited, status, remarks) ==
    LET ss == session[s]
        shown == display_df(ss, sel, filter_status)
        df == save_all_updates(ss, shown, edited, status, remarks)
    IN  /\ MayRun(s)
        /\ ss.logged_in
        /\ sel \in faculty_list(ss)
        /\ edited \in shown
        \* the status selectbox raises ValueError on a status that is no option
        /\ \A i \in shown : ss.df[i].Status \in Range(StatusOptions)
        /\ last' = Op("update_item", s, "Success", <<>>)
        /\ session' = [OnOtherPage(s) EXCEPT ![s].df = df]
        /\ data_file' = save_data(df)
        /\ UNCHANGED <<users_file, export_dir>>

(***************************************************************************)
(* Dashboard & Analytics page: the run shows get_faculty_summary of the    *)
(* rows the session sees.                                                  *)
(***************************************************************************)
summary_df(ss) == get_faculty_summary(Take(ss.df, Visible(ss)))

ShowDashboard(s) ==
    /\ MayRun(s)
    /\ session[s].logged_in
    /\ session[s].menu # "Dashboard & Analytics"
    /\ last' = Op("show_dashboard", s, "Success", <<>>)
    /\ session' = [session EXCEPT ![s].menu = "Dashboard & Analytics",
                                  ![s].download = <<>>]
    /\ UNCHANGED <<data_file, users_file, export_dir>>

(***************************************************************************)
(* "Export Data" (Checklist Management page): export_to_excel writes the   *)
(* workbook under a name that depends on the option and the selected name  *)
(* only, and the run then opens the file of that name for the download     *)
(* button.                                                                 *)
(***************************************************************************)
ExportOptions == {"Current Faculty", "All Faculty Data", "Summary Report"}

\* selected_name.replace(' ', '_')
replace(name) == IF name = "Sample Faculty" THEN "Sample_Faculty" ELSE name

export_filename(export_option, sel) ==
    CASE export_option = "Current Faculty" -> replace(sel[1]) \o "_checklist.xlsx"
      [] export_option = "All Faculty Data" -> "all_faculty_checklist.xlsx"
      [] OTHER -> "faculty_summary_report.xlsx"

export_df(ss, export_option, sel) ==
    LET df == Take(ss.df, Visible(ss))
    IN  CASE export_option = "Current Faculty" -> Take(ss.df, faculty_df(ss, sel))
          [] export_option = "All Faculty Data" ->
                IF ss.role = "admin" THEN ss.df ELSE df
          [] OTHER ->
                get_faculty_summary(IF ss.role = "admin" THEN ss.df ELSE df)

\* export_to_excel: the workbook of this name is written, over any other
export_to_excel(dir, df, filename) ==
    [f \in DOMAIN dir \cup {filename} |-> IF f = filename THEN df ELSE dir[f]]

ExportWrite(s, export_option, sel) ==
    LET ss == session[s]
        filename == export_filename(export_option, sel)
    IN  /\ MayRun(s)
        /\ ss.logged_in
        /\ sel \in faculty_list(ss)
        /\ last' = Op("export_to_excel", s, "Success", <<>>)
        /\ export_dir' = export_to_excel(export_dir, export_df(ss, export_option, sel),
                                         filename)
        /\ session' = [OnOtherPage(s) EXCEPT ![s].exporting = filename]
        /\ UNCHANGED <<data_file, users_file>>

\* open(output_path, "rb") handed to st.sidebar.download_button
ExportDownload(s) ==
    LET ss == session[s]
    IN  /\ ss.exporting # None
        /\ steps' = steps + 1
        /\ last' = Op("download_button", s, "Success", <<>>)
        /\ session' = [session EXCEPT ![s].exporting = None,
                                      ![s].download = export_dir[ss.exporting]]
        /\ UNCHANGED <<data_file, users_file, export_dir>>

StatusFilters == {"All", "Pending"}
\* what the user sets on the edited row: a status and a remark
ItemInputs == {<<"Done", "ok">>, <<"NA", "">>, <<"Pending", "ok">>}
\* the fields of the "Update User" form: a new password or none, the checkbox
AccountInputs == {<<"", PyFalse>>, <<"", PyTrue>>, <<"pw", PyTrue>>}

\* as many handler runs as the bound allows have not yet been made
Within(bound) == steps < bound

Next ==
    \/ \E s \in Sessions, u \in Usernames, p \in Passwords :
            Within(MaxSteps) /\ Login(s, u, p)
    \/ \E s \in Sessions : Within(MaxSteps) /\ Logout(s)
    \/ \E s \in Sessions : Within(MaxSteps) /\ ShowUserManagement(s)
    \/ \E s \in Sessions, u \in Usernames :
            Within(MaxSteps) /\ AddUser(s, u, "pw", "user", "User One", "u1@example.com")
    \/ \E s \in Sessions, u \in Usernames, in \in AccountInputs :
            Within(MaxSteps) /\ UpdateUser(s, u, in[1], in[2])
    \/ \E s \in Sessions, u \in DeleteChoices \cup {"admin"} :
            Within(MaxSteps) /\ DeleteUser(s, u)
    \/ \E s \in Sessions, n \in NameInputs :
            Within(MaxSteps) /\ AddFaculty(s, n, "Prof", "S1", Today)
    \/ \E s \in Sessions : \E sel \in faculty_list(session[s]), n \in NameInputs,
          d \in Dates :
            Within(MaxSteps) /\ EditFaculty(s, sel, n, "Dean", "S1", d)
    \/ \E s \in Sessions : \E sel \in faculty_list(session[s]) :
            Within(MaxSteps) /\ DeleteFaculty(s, sel)
    \/ \E s \in Sessions : \E sel \in faculty_list(session[s]), a \in BulkActions :
            Within(MaxSteps) /\ BulkAction(s, sel, a)
    \/ \E s \in Sessions : \E sel \in faculty_list(session[s]), f \in StatusFilters :
          \E i \in display_df(session[s], sel, f), in \in ItemInputs :
            Within(MaxSteps) /\ SaveAllUpdates(s, sel, f, i, in[1], in[2])

Spec == Init /\ [][Next]_vars

(***************************************************************************)
(* The same installation with the clicks on the account and visit          *)
(* handlers only, followed for more handler runs.                          *)
(***************************************************************************)
MaxAccountSteps == 5

NextAccounts ==
    \/ \E s \in Sessions, u \in Usernames, p \in Passwords :
            Within(MaxAccountSteps) /\ Login(s, u, p)
    \/ \E s \in Sessions : Within(MaxAccountSteps) /\ Logout(s)
    \/ \E s \in Sessions : Within(MaxAccountSteps) /\ ShowUserManagement(s)
    \/ \E s \in Sessions, u \in Usernames :
            Within(MaxAccountSteps)
            /\ AddUser(s, u, "pw", "user", "User One", "u1@example.com")
    \/ \E s \in Sessions, u \in Usernames, in \in AccountInputs :
            Within(MaxAccountSteps) /\ UpdateUser(s, u, in[1], in[2])
    \/ \E s \in Sessions, u \in DeleteChoices \cup {"admin"} :
            Within(MaxAccountSteps) /\ DeleteUser(s, u)
    \/ \E s \in Sessions : Within(MaxAccountSteps) /\ AddFaculty(s, "A", "Prof", "S1", Today)
    \/ \E s \in Sessions : \E sel \in faculty_list(session[s]) :
            Within(MaxAccountSteps) /\ DeleteFaculty(s, sel)

SpecAccounts == Init /\ [][NextAccounts]_vars

(***************************************************************************)
(* The same installation with the clicks that log in, add a visit and      *)
(* export.                                                                 *)
(***************************************************************************)
MaxExportSteps == 5

NextExport ==
    \/ \E s \in Sessions, u \in Usernames, p \in Passwords :
            Within(MaxExportSteps) /\ Login(s, u, p)
    \/ \E s \in Sessions : Within(MaxExportSteps) /\ Logout(s)
    \/ \E s \in Sessions : Within(MaxExportSteps) /\ AddFaculty(s, "A", "Prof", "S1", Today)
    \/ \E s \in Sessions : \E sel \in faculty_list(session[s]), o \in ExportOptions :
            Within(MaxExportSteps) /\ ExportWrite(s, o, sel)
    \/ \E s \in Sessions : Within(MaxExportSteps) /\ ExportDownload(s)

SpecExport == Init /\ [][NextExport]_vars

(***************************************************************************)
(* The same installation with the clicks on the checklist and the          *)
(* dashboard.                                                              *)
(***************************************************************************)
MaxChecklistSteps == 4

NextChecklist ==
    \/ \E s \in Sessions, u \in Usernames, p \in Passwords :
            Within(MaxChecklistSteps) /\ Login(s, u, p)
    \/ \E s \in Sessions, n \in {"A", "NA"} :
            Within(MaxChecklistSteps) /\ AddFaculty(s, n, "Prof", "S1", Today)
    \/ \E s \in Sessions : \E sel \in faculty_list(session[s]), a \in BulkActions :
            Within(MaxChecklistSteps) /\ BulkAction(s, sel, a)
    \/ \E s \in Sessions : \E sel \in faculty_list(session[s]) :
          \E i \in display_df(session[s], sel, "All"), in \in {<<"Done", "ok">>, <<"NA", "">>} :
            Within(MaxChecklistSteps) /\ SaveAllUpdates(s, sel, "All", i, in[1], in[2])
    \/ \E s \in Sessions : Within(MaxChecklistSteps) /\ ShowDashboard(s)

SpecChecklist == Init /\ [][NextChecklist]_vars

(***************************************************************************)
(* The first runs of an installation whose data file is missing, empty or  *)
(* damaged when the process starts.                                        *)
(***************************************************************************)
MaxLoadSteps == 4

InitLoad ==
    /\ users_file \in {initialize_users, UsersWithU1}
    /\ data_file \in {Missing, ZeroLength, Unparsable,
                      initialize_data(StartupTime)}
    /\ export_dir = <<>>
    /\ session = [s \in Sessions |-> NoSession]
    /\ last = Op("start", "none", "none", <<>>)
    /\ steps = 0

NextLoad ==
    \/ \E s \in Sessions, u \in Usernames, p \in Passwords :
            Within(MaxLoadSteps) /\ Login(s, u, p)
    \/ \E s \in Sessions : Within(MaxLoadSteps) /\ Logout(s)
    \/ \E s \in Sessions : Within(MaxLoadSteps) /\ ShowUserManagement(s)
    \/ \E s \in Sessions : Within(MaxLoadSteps) /\ AddFaculty(s, "A", "Prof", "S1", Today)
    \/ \E s \in Sessions : \E sel \in faculty_list(session[s]) :
            Within(MaxLoadSteps) /\ DeleteFaculty(s, sel)

SpecLoad == InitLoad /\ [][NextLoad]_vars

(***************************************************************************)
(* app_v4_excel.py: the application before accounts.  The data file has no *)
(* Owner column, there is no login, and every session caches the frame at  *)
(* its first run.  The specification SpecV4 uses data_file, session (its   *)
(* has_df and df), last and steps; users_file and export_dir stay empty.   *)
(***************************************************************************)
MaxV4Steps == 4

FacultyRow(name, designation, session_name, session_date, item, status, remarks, stamp, by) ==
    [Name |-> name, Designation |-> designation,
     SessionName |-> session_name, SessionDate |-> session_date,
     Item |-> item, Status |-> status, Remarks |-> remarks,
     LastUpdated |-> stamp, UpdatedBy |-> by]

\* the one faculty column of the workbook initialize_data reads
ExcelFaculty == "Sample Faculty"

\* v4 initialize_data: one row per faculty column and checklist item of the
\* workbook, with empty designation, session name and session date
initialize_data_v4(stamp) ==
    to_csv([i \in DOMAIN default_checklist_items |->
        FacultyRow(ExcelFaculty, "", "", "", default_checklist_items[i],
                   "Pending", "", stamp, "System")])

load_data_v4(file) == read_csv(file)

add_new_faculty_v4(file, name, designation, session_name, session_date) ==
    LET df == load_data_v4(file)
        existing == SelectSeq(df, LAMBDA r :
            Eq(r.Name, strip(name)) /\ Eq(r.SessionDate, session_date))
        checklist_items == unique([i \in DOMAIN df |-> df[i].Item])
        new_records == [i \in DOMAIN checklist_items |->
            FacultyRow(strip(name), strip(designation), strip(session_name),
                       session_date, checklist_items[i], "Pending", "", Now, "Admin")]
        out == df \o new_records
    IN  IF strip(name) = ""
        THEN [msg |-> "Name cannot be empty", df |-> <<>>, file |-> file]
        ELSE IF existing # <<>>
        THEN [msg |-> "Faculty with this name and session date already exists",
              df |-> <<>>, file |-> file]
        ELSE [msg |-> "Success", df |-> out, file |-> save_data(out)]

delete_faculty_v4(file, name, session_date) ==
    LET df == load_data_v4(file)
        out == SelectSeq(df, LAMBDA r :
                   ~(Eq(r.Name, name) /\ Eq(r.SessionDate, session_date)))
    IN  [msg |-> "Success", df |-> out, file |-> save_data(out)]

\* v4 edit_faculty: the test for an existing visit compares new_name as
\* typed, the rows are written with new_name.strip(), and the result is
\* "Success" whatever the mask selects
edit_faculty_v4(file, old_name, old_session_date, new_name, new_designation, new_session_name, new_session_date) ==
    LET df == load_data_v4(file)
        existing == SelectSeq(df, LAMBDA r :
            Eq(r.Name, new_name) /\ Eq(r.SessionDate, new_session_date))
        mask == {i \in DOMAIN df :
                    Eq(df[i].Name, old_name) /\ Eq(df[i].SessionDate, old_session_date)}
        out == [i \in DOMAIN df |->
            IF i \in mask
            THEN [df[i] EXCEPT !.Name = strip(new_name),
                               !.Designation = strip(new_designation),
                               !.SessionName = strip(new_session_name),
                               !.SessionDate = new_session_date,
                               !.LastUpdated = Now,
                               !.UpdatedBy = "Admin"]
            ELSE df[i]]
    IN  IF (new_name # old_name \/ new_session_date # old_session_date)
           /\ existing # <<>>
        THEN [msg |-> "Faculty with this name and session date already exists",
              df |-> <<>>, file |-> file]
        ELSE [msg |-> "Success", df |-> out, file |-> save_data(out)]

\* the (Name, Session Date) pairs the selectboxes of Manage Faculty offer
\* and selected_row can be found for: Display is missing when the name or
\* the session name is
faculty_list_v4(ss) ==
    {<<ss.df[i].Name, ss.df[i].SessionDate>> :
        i \in {j \in DOMAIN ss.df : ss.df[j].Name # NaN /\ ss.df[j].SessionName # NaN}}

\* the data file as initialize_data wrote it, or as an earlier run left it
\* once the visit A was added
InitV4 ==
    /\ data_file \in {initialize_data_v4(StartupTime),
                      add_new_faculty_v4(initialize_data_v4(StartupTime), "A",
                                         "Prof", "S1", Today).file}
    /\ users_file = <<>>
    /\ export_dir = <<>>
    /\ session = [s \in Sessions |-> NoSession]
    /\ last = Op("start", "none", "none", <<>>)
    /\ steps = 0

\* the first run of a session: st.session_state.df = load_data()
OpenV4(s) ==
    /\ MayRun(s)
    /\ ~session[s].has_df
    /\ last' = Op("open", s, "Success", <<>>)
    /\ session' = [session EXCEPT ![s].has_df = TRUE,
                                  ![s].df = load_data_v4(data_file)]
    /\ UNCHANGED <<data_file, users_file, export_dir>>

AddFacultyV4(s, new_name, new_designation, new_session_name, new_session_date) ==
    LET r == add_new_faculty_v4(data_file, new_name, new_designation,
                                new_session_name, new_session_date)
    IN  /\ MayRun(s)
        /\ session[s].has_df
        /\ new_name # "" /\ new_designation # "" /\ new_session_name # ""
        /\ last' = Op("add_new_faculty", s, r.msg, <<>>)
        /\ data_file' = r.file
        /\ session' = IF r.msg = "Success"
                      THEN [session EXCEPT ![s].df = r.df]
                      ELSE session
        /\ UNCHANGED <<users_file, export_dir>>

EditFacultyV4(s, sel, edit_name, edit_designation, edit_session_name, edit_session_date) ==
    LET r == edit_faculty_v4(data_file, sel[1], sel[2], edit_name,
                             edit_designation, edit_session_name, edit_session_date)
    IN  /\ MayRun(s)
        /\ session[s].has_df
        /\ sel \in faculty_list_v4(session[s])
        /\ edit_name # "" /\ edit_designation # "" /\ edit_session_name # ""
        /\ last' = Op("edit_faculty", s, r.msg, <<>>)
        /\ data_file' = r.file
        /\ session' = IF r.msg = "Success"
                      THEN [session EXCEPT ![s].df = r.df]
                      ELSE session
        /\ UNCHANGED <<users_file, export_dir>>

DeleteFacultyV4(s, sel) ==
    LET r == delete_faculty_v4(data_file, sel[1], sel[2])
    IN  /\ MayRun(s)
        /\ session[s].has_df
        /\ sel \in faculty_list_v4(session[s])
        /\ last' = Op("delete_faculty", s, r.msg, <<>>)
        /\ data_file' = r.file
        /\ session' = [session EXCEPT ![s].df = r.df]
        /\ UNCHANGED <<users_file, export_dir>>

NextV4 ==
    \/ \E s \in Sessions : Within(MaxV4Steps) /\ OpenV4(s)
    \/ \E s \in Sessions, n \in NameInputs :
            Within(MaxV4Steps) /\ AddFacultyV4(s, n, "Prof", "S1", Today)
    \/ \E s \in Sessions : \E sel \in faculty_list_v4(session[s]), n \in NameInputs,
          d \in Dates :
            Within(MaxV4Steps) /\ EditFacultyV4(s, sel, n, "Dean", "S1", d)
    \/ \E s \in Sessions : \E sel \in faculty_list_v4(session[s]) :
            Within(MaxV4Steps) /\ DeleteFacultyV4(s, sel)

SpecV4 == InitV4 /\ [][NextV4]_vars

(***************************************************************************)
(* Properties.                                                             *)
(*                                                                         *)
(* The persisted Record Store is data_file.  Two rows have the same key    *)
(* when the four key cells of the file hold the same text; the store has a *)
(* visit when a row of the file holds its owner, name and date.  A row is  *)
(* unchanged when pandas.read_csv returns the same row before and after,   *)
(* so that a missing cell written as "" instead of "NA" is no change.      *)
(***************************************************************************)
Key(row) == <<row.Owner, row.Name, row.SessionDate, row.Item>>

HasVisit(file, owner, name, session_date) ==
    \E i \in DOMAIN file :
        /\ file[i].Owner = owner
        /\ file[i].Name = name
        /\ file[i].SessionDate = session_date

RowsOf(file, owner) == SelectSeq(read_csv(file), LAMBDA r : r.Owner = owner)

RowsOfOthers(file, owner) == SelectSeq(read_csv(file), LAMBDA r : r.Owner # owner)

DuplicateKey == "Faculty with this name and session date already exists"
NotFound == "Faculty not found"

\* C1: in every reachable state no two rows of the persisted Record Store
\* hold the same (owner, faculty name, session date, checklist item).
C1_UniqueKeys ==
    \A i, j \in DOMAIN data_file :
        Key(data_file[i]) = Key(data_file[j]) => i = j

\* C2: whatever a logged-in non-admin session is shown (the rows its pages
\* are derived from, the rows of the workbook its download button holds) is
\* a row of its own username.
C2_NonAdminSeesOwnRows ==
    \A s \in Sessions :
        LET ss == session[s]
        IN  (ss.logged_in /\ ss.role # "admin") =>
                /\ \A i \in Visible(ss) : ss.df[i].Owner = ss.username
                /\ \A k \in DOMAIN ss.download : ss.download[k].Owner = ss.username

RecordOps ==
    {"add_new_faculty", "edit_faculty", "delete_faculty", "update_item", "bulk_update"}

\* C3: a record operation run by a session of role user leaves every
\* persisted row of every other owner as it was, whatever other sessions
\* wrote since the session loaded the store.
C3_NonAdminWritesOwnRows ==
    [][\A s \in Sessions :
        (/\ last'.s = s
         /\ last'.op \in RecordOps
         /\ session[s].logged_in
         /\ session[s].role = "user")
        => RowsOfOthers(data_file', session[s].username)
             = RowsOfOthers(data_file, session[s].username)]_vars

\* the persisted rows of the selected name and date that another user owns
ForeignRows(file, owner, sel) ==
    {i \in DOMAIN file :
        file[i].Owner # owner /\ file[i].Name = sel[1] /\ file[i].SessionDate = sel[2]}

\* C4: when an admin session deletes, or renames to an unused key, a
\* selected visit that another user owns, the persisted store afterwards
\* holds no row of that visit under the selected key.
C4_AdminMutatesAllRows ==
    [][\A s \in Sessions : \A sel \in faculty_list(session[s]) :
        (/\ last'.s = s
         /\ IsAdminSession(s)
         /\ ForeignRows(data_file, session[s].username, sel) # {})
        => /\ (last'.op = "delete_faculty" /\ DeleteFaculty(s, sel))
                => ForeignRows(data_file', session[s].username, sel) = {}
           /\ \A n \in NameInputs, d \in Dates :
                (/\ last'.op = "edit_faculty"
                 /\ EditFaculty(s, sel, n, "Dean", "S1", d)
                 /\ strip(n) # ""
                 /\ <<strip(n), d>> # sel
                 /\ \A i \in DOMAIN data_file :
                        <<data_file[i].Name, data_file[i].SessionDate>> # <<strip(n), d>>)
                => ForeignRows(data_file', session[s].username, sel) = {}]_vars

\* C5: when delete_user(u), u not admin, returns success, the record store
\* it leaves holds no row of u, the user store holds no account u, and the
\* rows of the other owners and the other accounts are as they were.
C5_DeleteAccountCascade ==
    [][\A s \in Sessions, u \in Usernames \ {"admin"} :
        (/\ last'.op = "delete_user"
         /\ last'.s = s
         /\ DeleteUser(s, u)
         /\ last'.result = "User deleted successfully")
        => /\ RowsOf(last'.data, u) = <<>>
           /\ ~HasUser(load_users(users_file'), u)
           /\ RowsOfOthers(last'.data, u) = RowsOfOthers(data_file, u)
           /\ SelectSeq(load_users(users_file'), LAMBDA a : a.username # u)
                = SelectSeq(load_users(users_file), LAMBDA a : a.username # u)]_vars

\* C6: delete_user("admin") is rejected and leaves the user store and the
\* record store as they were, and the user store holds an account named
\* admin in every reachable state.
C6_AdminNeverDeleted ==
    /\ [](HasUser(load_users(users_file), "admin"))
    /\ [][\A s \in Sessions :
            (last'.op = "delete_user" /\ last'.s = s /\ DeleteUser(s, "admin"))
            => /\ last'.result = "Cannot delete admin account"
               /\ users_file' = users_file
               /\ last'.data = data_file]_vars

\* C6 happens: delete_user("admin") was called and rejected while the user
\* store also holds another account
C6_AdminDeleteRejected ==
    /\ last.op = "delete_user"
    /\ last.result = "Cannot delete admin account"
    /\ HasUser(load_users(users_file), "u1")

\* C7: a create of a visit the store already has for this owner fails with
\* DuplicateKey, a failed create leaves the persisted store unchanged, and a
\* create of a named visit the store does not have for this owner succeeds.
C7_DuplicateCreateRejected ==
    [][\A s \in Sessions, n \in NameInputs :
        (/\ last'.op = "add_new_faculty"
         /\ last'.s = s
         /\ AddFaculty(s, n, "Prof", "S1", Today))
        => LET owner == session[s].username
               has == HasVisit(data_file, owner, strip(n), Today)
           IN  /\ (has /\ strip(n) # "") => last'.result = DuplicateKey
               /\ last'.result # "Success" =>
                      read_csv(data_file') = read_csv(data_file)
               /\ (~has /\ strip(n) # "") => last'.result = "Success"]_vars

\* C8: a successful create appends one row per distinct checklist item of
\* the persisted store, each with the caller as owner and updater, status
\* Pending and no remarks, and changes no row the store held.
C8_CreateInsertsOneRowPerItem ==
    [][\A s \in Sessions, n \in NameInputs :
        (/\ last'.op = "add_new_faculty"
         /\ last'.s = s
         /\ AddFaculty(s, n, "Prof", "S1", Today)
         /\ last'.result = "Success")
        => LET owner == session[s].username
               pre == read_csv(data_file)
               post == read_csv(data_file')
               items == {pre[i].Item : i \in DOMAIN pre}
               inserted == (Len(pre) + 1)..Len(post)
           IN  /\ Len(post) = Len(pre) + Cardinality(items)
               /\ SubSeq(post, 1, Len(pre)) = pre
               /\ {post[i].Item : i \in inserted} = items
               /\ \A i \in inserted :
                    /\ post[i].Owner = owner
                    /\ post[i].Status = "Pending"
                    /\ post[i].Remarks = NaN
                    /\ post[i].UpdatedBy = owner]_vars

\* C9: after a successful rename to a different key, a load of the store
\* returns as many rows under the new key as the visit had, and none under
\* the old key.
C9_RenameSeenUnderNewKey ==
    [][\A s \in Sessions : \A sel \in faculty_list(session[s]) :
       \A n \in NameInputs, d \in Dates :
        (/\ last'.op = "edit_faculty"
         /\ last'.s = s
         /\ EditFaculty(s, sel, n, "Dean", "S1", d)
         /\ last'.result = "Success"
         /\ <<strip(n), d>> # sel)
        => LET owner == session[s].username
               pre == load_data(data_file).df
               post == load_data(data_file').df
           IN  /\ \A i \in DOMAIN post : ~IsVisit(post[i], owner, sel[1], sel[2])
               /\ Cardinality({i \in DOMAIN post : IsVisit(post[i], owner, strip(n), d)})
                    = Cardinality({i \in DOMAIN pre :
                                      IsVisit(pre[i], owner, sel[1], sel[2])})]_vars

\* C10: a rename onto the key of another visit of the owner fails with
\* DuplicateKey, a rename of a visit the store does not have fails with
\* NotFound, both leave the persisted store unchanged, and a rename that
\* keeps the key of a visit the store has succeeds.
C10_RenameFailuresChangeNothing ==
    [][\A s \in Sessions : \A sel \in faculty_list(session[s]) :
       \A n \in NameInputs, d \in Dates :
        (/\ last'.op = "edit_faculty"
         /\ last'.s = s
         /\ EditFaculty(s, sel, n, "Dean", "S1", d)
         /\ strip(n) # "")
        => LET owner == session[s].username
               collides == <<strip(n), d>> # sel
                           /\ HasVisit(data_file, owner, strip(n), d)
               found == HasVisit(data_file, owner, sel[1], sel[2])
           IN  /\ collides => last'.result = DuplicateKey
               /\ (~collides /\ ~found) => last'.result = NotFound
               /\ last'.result \in {DuplicateKey, NotFound} =>
                      read_csv(data_file') = read_csv(data_file)
               /\ (found /\ <<strip(n), d>> = sel) => last'.result = "Success"]_vars

\* the rows a load returns for the rows of the file that do not hold this
\* owner, name and date
WithoutVisit(file, owner, name, session_date) ==
    LET kept == SelectSeq([i \in DOMAIN file |-> i], LAMBDA i :
                    ~(/\ file[i].Owner = owner
                      /\ file[i].Name = name
                      /\ file[i].SessionDate = session_date))
    IN  [k \in DOMAIN kept |-> read_csv(file)[kept[k]]]

\* C11: a delete of a visit leaves exactly the rows of the other visits,
\* each unchanged, and the same delete applied again reports no error and
\* leaves the store as the first one left it.
C11_DeleteIdempotent ==
    [][\A s \in Sessions : \A sel \in faculty_list(session[s]) :
        (/\ last'.op = "delete_faculty"
         /\ last'.s = s
         /\ DeleteFaculty(s, sel))
        => LET owner == session[s].username
               again == delete_faculty(data_file', owner, sel[1], sel[2])
           IN  /\ read_csv(data_file') = WithoutVisit(data_file, owner, sel[1], sel[2])
               /\ again.msg = "Success"
               /\ read_csv(again.file) = read_csv(data_file')]_vars

\* a visit of four rows: two Done, one Pending, one NA
ExampleVisit ==
    [i \in 1..4 |->
        Record("u1", "A", "Prof", "S1", Today,
               <<"Letter to Guest Faculty", "Letter to Boss", "Tour Program",
                 "Room Book">>[i],
               <<"Done", "Done", "Pending", "NA">>[i], "", Now, "u1")]

\* the rows a session sees that the summary entry e stands for
EntryRows(ss, e) ==
    {i \in Visible(ss) : IsVisit(ss.df[i], e.Owner, e.Name, e.SessionDate)}

Stored(file, username) ==
    file[CHOOSE i \in DOMAIN file :
            /\ file[i].username = username
            /\ \A j \in 1..(i - 1) : file[j].username # username]

IsStored(file, username) == \E i \in DOMAIN file : file[i].username = username

\* C13: a login succeeds, with the stored role and full name, exactly when
\* the user store holds the username, the account is active and the hash of
\* the password is the stored one; it reports no such user, an inactive
\* account (whatever the password) or an invalid password otherwise, and
\* never changes the user store.
C13_AuthenticateOutcome ==
    [][\A s \in Sessions, u \in Usernames, p \in Passwords :
        (/\ last'.op = "login"
         /\ last'.s = s
         /\ Login(s, u, p))
        => LET exists == IsStored(users_file, u)
               acct == Stored(users_file, u)
               active == acct.active = PyTrue
               matches == acct.password = hash_password(p)
           IN  /\ users_file' = users_file
               /\ ~exists => last'.result = None
               /\ (exists /\ ~active) => last'.result = "Account is inactive"
               /\ (exists /\ active /\ ~matches) => last'.result = "Invalid password"
               /\ (exists /\ active /\ matches) =>
                    /\ last'.result = "Success"
                    /\ session'[s].role = acct.role
                    /\ session'[s].full_name = acct.full_name
               /\ last'.result = "Success" => (exists /\ active /\ matches)]_vars

UniqueUsernames(file) ==
    \A i, j \in DOMAIN file : file[i].username = file[j].username => i = j

\* C14: no two accounts of the user store ever hold the same username, and
\* adding an account under a username the store already holds is rejected
\* as a duplicate and leaves the user store as it was.
C14_UniqueUsernames ==
    /\ [](UniqueUsernames(users_file))
    /\ [][\A s \in Sessions, u \in Usernames :
            (/\ last'.op = "add_user"
             /\ last'.s = s
             /\ AddUser(s, u, "pw", "user", "User One", "u1@example.com")
             /\ IsStored(users_file, u))
            => (/\ last'.result = "Username already exists"
                /\ users_file' = users_file)]_vars

Digests == {hash_password(p) : p \in Passwords}

\* the passwords a step supplies for the account u: typed into Add User when
\* the account is added, or into the password field of Update User
Supplied(u) ==
    {p \in Passwords :
        \E s \in Sessions :
            \/ /\ last'.op = "add_user"
               /\ last'.result = "User added successfully"
               /\ AddUser(s, u, p, "user", "User One", "u1@example.com")
            \/ /\ last'.op = "update_user"
               /\ \E active \in {PyTrue, PyFalse} : UpdateUser(s, u, p, active)}

\* C15: the password cell of every account is a digest and never a password
\* as typed; a step that supplies a password for an account leaves the
\* digest of that password in its cell, and any other step leaves the cell
\* as it was.
C15_PasswordsStoredHashed ==
    /\ [](\A i \in DOMAIN users_file :
            /\ users_file[i].password \in Digests
            /\ users_file[i].password \notin Passwords)
    /\ [][\A u \in Usernames :
            IsStored(users_file', u) =>
                IF Supplied(u) # {}
                THEN Stored(users_file', u).password
                        \in {hash_password(p) : p \in Supplied(u)}
                ELSE /\ IsStored(users_file, u)
                     /\ Stored(users_file', u).password
                            = Stored(users_file, u).password]_vars

\* the password of an account has been replaced through Update User
C15_PasswordReplaced ==
    /\ last.op = "update_user"
    /\ IsStored(users_file, "admin")
    /\ Stored(users_file, "admin").password = hash_password("pw")

\* arguments of update_user: None stands for a field that is not provided
UpdateInputs ==
    {None, "User Two"} \X {None, "u2@example.com"} \X ({None} \cup Passwords)
        \X {None, PyTrue, PyFalse}

\* C16: update_user on a username the user store does not hold reports that
\* the user was not found and leaves the store as it was; on a username it
\* holds, it replaces exactly the provided fields among full_name, email,
\* password (by its digest) and active of that account, keeps its username,
\* role and created_date, and keeps every other account.
C16_UpdateOverwritesProvidedFields ==
    \A u \in Usernames : \A in \in UpdateInputs :
        LET r == update_user(users_file, u, in[1], in[2], in[3], in[4])
            old == read_csv(users_file)
            new == read_csv(r.file)
        IN  IF ~IsStored(users_file, u)
            THEN /\ ~r.success
                 /\ r.msg = "User not found"
                 /\ r.file = users_file
            ELSE /\ r.success
                 /\ Len(new) = Len(old)
                 /\ \A i \in DOMAIN old :
                        IF users_file[i] = Stored(users_file, u)
                        THEN /\ new[i].username = old[i].username
                             /\ new[i].role = old[i].role
                             /\ new[i].created_date = old[i].created_date
                             /\ new[i].full_name =
                                    IF in[1] # None THEN in[1] ELSE old[i].full_name
                             /\ new[i].email =
                                    IF in[2] # None THEN in[2] ELSE old[i].email
                             /\ new[i].password =
                                    IF in[3] # None THEN hash_password(in[3])
                                    ELSE old[i].password
                             /\ new[i].active =
                                    IF in[4] # None THEN in[4] ELSE old[i].active
                        ELSE new[i] = old[i]

\* C17: load_data of a data file that is missing, of no bytes or rejected by
\* the parser returns the frame of the default content and leaves a file
\* holding that content, and the login whose run loads such a file succeeds
\* with that frame in the session.
C17_LoadReseedsUnreadableFile ==
    /\ [](\A file \in {Missing, ZeroLength, Unparsable} :
            /\ load_data(file).file = initialize_data(Now)
            /\ load_data(file).df = read_csv(initialize_data(Now)))
    /\ [][\A s \in Sessions, u \in Usernames, p \in Passwords :
            (/\ last'.op = "login"
             /\ last'.s = s
             /\ Login(s, u, p)
             /\ session'[s].logged_in
             /\ ~session[s].has_df
             /\ Unreadable(data_file))
            => (/\ last'.result = "Success"
                /\ data_file' = initialize_data(Now)
                /\ session'[s].df = read_csv(initialize_data(Now)))]_vars

\* the first login of the process has found no readable data file and holds
\* the default content, written during its run
C17_LoggedInOverUnreadableFile ==
    /\ last.op = "login"
    /\ session["s1"].logged_in
    /\ steps = 1
    /\ data_file = initialize_data(Now)
    /\ session["s1"].df = read_csv(initialize_data(Now))

\* C18: a session holds a username and a role exactly while it is logged
\* in; it becomes logged in only by a Login step whose authenticate_user
\* succeeds for the username it then holds, with the role and full name
\* returned; a rejected login leaves the session without identity; Logout
\* clears logged_in, username, role and full_name and changes neither file.
C18_SessionBoundary ==
    /\ [](\A s \in Sessions :
            IF session[s].logged_in
            THEN /\ session[s].username \in Usernames
                 /\ session[s].role \in {"admin", "user"}
            ELSE /\ session[s].username = None
                 /\ session[s].role = None
                 /\ session[s].full_name = None)
    /\ [][\A s \in Sessions :
            /\ (~session[s].logged_in /\ session'[s].logged_in) =>
                    \E u \in Usernames, p \in Passwords :
                        LET auth == authenticate_user(users_file, u, p)
                        IN  /\ Login(s, u, p)
                            /\ auth.success
                            /\ session'[s].username = u
                            /\ session'[s].role = auth.role
                            /\ session'[s].full_name = auth.full_name
            /\ (last'.op = "login" /\ last'.s = s /\ last'.result # "Success") =>
                    /\ ~session'[s].logged_in
                    /\ session' = session
            /\ (last'.op = "logout" /\ last'.s = s) =>
                    /\ ~session'[s].logged_in
                    /\ session'[s].username = None
                    /\ session'[s].role = None
                    /\ session'[s].full_name = None
                    /\ users_file' = users_file
                    /\ data_file' = data_file]_vars

\* a session that was logged in has logged out
C18_LoggedOut ==
    /\ last.op = "logout"
    /\ last.s = "s1"
    /\ session["s1"].has_df
    /\ ~session["s1"].logged_in

\* the session as it would be had it loaded the data file at this moment
Reloaded(s) == [session[s] EXCEPT !.df = load_data(data_file).df]

\* C19: every handler that writes the record store (Add Faculty, Save
\* Changes, Delete Faculty, Save All Updates, Apply Bulk Action) leaves in
\* the data file its operation applied to the content the file held
\* immediately before the handler ran.
C19_WritesApplyToPersistedContent ==
    [][\A s \in Sessions :
        /\ (last'.op = "add_new_faculty" /\ last'.s = s) =>
                \A n \in NameInputs :
                    AddFaculty(s, n, "Prof", "S1", Today) =>
                        data_file' = add_new_faculty(data_file, session[s].username,
                                                     n, "Prof", "S1", Today).file
        /\ (last'.op = "edit_faculty" /\ last'.s = s) =>
                \A sel \in faculty_list(session[s]), n \in NameInputs, d \in Dates :
                    EditFaculty(s, sel, n, "Dean", "S1", d) =>
                        data_file' = edit_faculty(data_file, session[s].username,
                                                  sel[1], sel[2], n, "Dean", "S1", d).file
        /\ (last'.op = "delete_faculty" /\ last'.s = s) =>
                \A sel \in faculty_list(session[s]) :
                    DeleteFaculty(s, sel) =>
                        data_file' = delete_faculty(data_file, session[s].username,
                                                    sel[1], sel[2]).file
        /\ (last'.op = "bulk_update" /\ last'.s = s) =>
                \A sel \in faculty_list(session[s]), a \in BulkActions :
                    BulkAction(s, sel, a) =>
                        data_file' = save_data(bulk_update(Reloaded(s), sel, a))
        /\ (last'.op = "update_item" /\ last'.s = s) =>
                \A sel \in faculty_list(session[s]), f \in StatusFilters :
                    \A i \in display_df(session[s], sel, f), in \in ItemInputs :
                        SaveAllUpdates(s, sel, f, i, in[1], in[2]) =>
                            data_file' = save_data(
                                save_all_updates(Reloaded(s),
                                                 display_df(Reloaded(s), sel, f),
                                                 i, in[1], in[2]))]_vars

\* C20: nothing protects the data file from a second writer.  Apply Bulk
\* Action and Save All Updates always report success and leave in the file
\* exactly the rows of the frame the session held, whatever other sessions
\* have written since the session loaded it; so a visit whose creation was
\* reported to one session can be missing from the file after a write that
\* was reported as a success to another.
C20_LaterSaveReplacesStore ==
    [][\A s \in Sessions :
        (last'.s = s /\ last'.op \in {"bulk_update", "update_item"})
        => LET held == to_csv(session[s].df)
           IN  /\ last'.result = "Success"
               /\ Len(data_file') = Len(held)
               /\ \A i \in DOMAIN held : Key(data_file'[i]) = Key(held[i])]_vars

\* four runs: both sessions have logged in, s1 has created the visit A with
\* success, and the bulk action of s2, reported as a success, has left no
\* row of A in the data file
C20_LostUpdate ==
    /\ steps = 4
    /\ last = Op("bulk_update", "s2", "Success", <<>>)
    /\ session["s1"].logged_in
    /\ \E i \in DOMAIN session["s1"].df :
            /\ session["s1"].df[i].Name = "A"
            /\ session["s1"].df[i].UpdatedBy = session["s1"].username
            /\ session["s1"].df[i].LastUpdated = Now
    /\ \A i \in DOMAIN session["s2"].df : session["s2"].df[i].Name # "A"
    /\ \A i \in DOMAIN data_file : data_file[i].Name # "A"

\* the rows of the selected name and date that the session may act on
InScope(ss, row, sel) ==
    /\ row.Name = sel[1]
    /\ row.SessionDate = sel[2]
    /\ (ss.role # "admin" => row.Owner = ss.username)

\* C21: after Apply Bulk Action every row of the selected visit within the
\* session's scope is Done after "Mark All as Done" (rows marked NA
\* included), Pending after "Mark All as Pending", and after "Clear All
\* Remarks" has empty remarks and the status the data file held for it;
\* each such row is stamped with the session's username.
C21_BulkActionAppliesToVisit ==
    [][\A s \in Sessions : \A sel \in faculty_list(session[s]), a \in BulkActions :
        (/\ last'.op = "bulk_update"
         /\ last'.s = s
         /\ BulkAction(s, sel, a))
        => LET ss == session[s]
           IN  /\ \E i \in DOMAIN data_file' : InScope(ss, data_file'[i], sel)
               /\ \A i \in DOMAIN data_file' :
                    InScope(ss, data_file'[i], sel) =>
                        /\ data_file'[i].UpdatedBy = ss.username
                        /\ a = "Mark All as Done" => data_file'[i].Status = "Done"
                        /\ a = "Mark All as Pending" => data_file'[i].Status = "Pending"
                        /\ a = "Clear All Remarks" =>
                                /\ data_file'[i].Remarks = ""
                                /\ \A j \in DOMAIN data_file :
                                        Key(data_file[j]) = Key(data_file'[i])
                                        => data_file'[i].Status = data_file[j].Status]_vars

\* C22: Save All Updates changes, in the data file, only the status, the
\* remarks and the stamp of the rows it displays, stamps them with the
\* session's username, changes the key of no row and neither adds nor
\* removes a row.
C22_SaveChangesOnlyItemFields ==
    [][\A s \in Sessions : \A sel \in faculty_list(session[s]) :
        \A i \in display_df(session[s], sel, "All"), in \in ItemInputs :
            (/\ last'.op = "update_item"
             /\ last'.s = s
             /\ SaveAllUpdates(s, sel, "All", i, in[1], in[2]))
            => LET ss == session[s]
                   old == read_csv(data_file)
                   new == read_csv(data_file')
               IN  /\ Len(new) = Len(old)
                   /\ \A k \in DOMAIN new :
                        /\ Key(data_file'[k]) = Key(data_file[k])
                        /\ new[k].Designation = old[k].Designation
                        /\ new[k].SessionName = old[k].SessionName
                        /\ IF InScope(ss, data_file[k], sel)
                           THEN new[k].UpdatedBy = ss.username
                           ELSE new[k] = old[k]]_vars

\* the owners of the rows a session holds under the selected name and date
OwnersOf(ss, sel) ==
    {ss.df[i].Owner : i \in faculty_df(ss, sel)}

\* C23: Apply Bulk Action changes no row of the data file outside one
\* visit: there is an owner of the selected name and date such that every
\* row with another (owner, name, date) is as it was, for admin sessions
\* too and also when two owners have a visit of that name and date.
C23_BulkActionLeavesOtherVisits ==
    [][\A s \in Sessions : \A sel \in faculty_list(session[s]), a \in BulkActions :
        (/\ last'.op = "bulk_update"
         /\ last'.s = s
         /\ BulkAction(s, sel, a))
        => LET old == read_csv(data_file)
               new == read_csv(data_file')
           IN  /\ Len(new) = Len(old)
               /\ \E o \in OwnersOf(session[s], sel) :
                    \A k \in DOMAIN old :
                        ~(/\ data_file[k].Owner = o
                          /\ data_file[k].Name = sel[1]
                          /\ data_file[k].SessionDate = sel[2])
                        => new[k] = old[k]]_vars

VisitKey(row) == <<row.Owner, row.Name, row.SessionDate>>

\* the rows a session sees whose (owner, name, date) is that of the entry
VisitRows(ss, e) == {i \in Visible(ss) : VisitKey(ss.df[i]) = VisitKey(e)}

\* C24: the summary a dashboard shows has exactly one entry for each
\* (owner, name, date) among the rows the session sees, and the Done,
\* Pending and N/A counts of an entry are the numbers of rows of that visit
\* with that status and add up to its total.
C24_SummaryOneEntryPerVisit ==
    \A s \in Sessions :
        LET ss == session[s]
            summary == summary_df(ss)
        IN  (ss.logged_in /\ ss.menu = "Dashboard & Analytics") =>
            /\ {VisitKey(summary[k]) : k \in DOMAIN summary}
                    = {VisitKey(ss.df[i]) : i \in Visible(ss)}
            /\ \A j, k \in DOMAIN summary :
                    VisitKey(summary[j]) = VisitKey(summary[k]) => j = k
            /\ \A k \in DOMAIN summary :
                    LET e == summary[k]
                        count(status) ==
                            Cardinality({i \in VisitRows(ss, e) :
                                            ss.df[i].Status = status})
                    IN  /\ e.TotalItems = Cardinality(VisitRows(ss, e))
                        /\ e.Done = count("Done")
                        /\ e.Pending = count("Pending")
                        /\ e.NA = count("NA")
                        /\ e.Done + e.Pending + e.NA = e.TotalItems

OwnsRows(file, u) == \E i \in DOMAIN file : file[i].Owner = u

\* C25: once an account is deleted and the data file holds no row of its
\* owner, a row of that owner enters the data file only through Add Faculty
\* run by a session of that username; Save All Updates and Apply Bulk
\* Action of the admin session do not write the deleted rows back.
C25_DeletedRowsStayDeleted ==
    [][\A u \in Usernames \ {"admin"} :
        (/\ ~IsStored(users_file, u)
         /\ ~OwnsRows(data_file, u)
         /\ OwnsRows(data_file', u))
        => (/\ last'.op = "add_new_faculty"
            /\ session[last'.s].username = u)]_vars

\* C26: the owner of every row of the data file is the username of an
\* account of the user store, also after an account was deleted while a
\* session of that account was logged in.
C26_OwnersAreAccounts ==
    \A i \in DOMAIN data_file : IsStored(users_file, data_file[i].Owner)

\* C27: the user store always holds an account of role admin that is
\* active, whatever accounts admin sessions add, update and delete.
C27_ActiveAdminExists ==
    \E i \in DOMAIN users_file :
        /\ users_file[i].role = "admin"
        /\ users_file[i].active = PyTrue

\* C28: what a handler saves is what the next load_data returns: after
\* every write of the data file, the table left by deleting the last visit
\* or by deleting an account included, load_data leaves the file as it is
\* and returns a frame that save_data would write as that same file.
C28_SaveThenLoadIsIdentity ==
    [][\A s \in Sessions :
        /\ (last'.s = s /\ last'.op \in RecordOps /\ last'.result = "Success") =>
                /\ load_data(data_file').file = data_file'
                /\ to_csv(load_data(data_file').df) = data_file'
        /\ (last'.s = s /\ last'.op = "delete_user"
                /\ last'.result = "User deleted successfully") =>
                /\ load_data(last'.data).file = last'.data
                /\ to_csv(load_data(last'.data).df) = last'.data]_vars

\* C29: a successful Save Changes keeps the checklist of the visit: the
\* data file has as many rows as before, each row of the visit keeps its
\* owner, item, status and remarks and ends with the new name, designation,
\* session name and date, and every row of another visit is as it was.
C29_RenameKeepsChecklist ==
    [][\A s \in Sessions : \A sel \in faculty_list(session[s]) :
       \A n \in NameInputs, d \in Dates :
        (/\ last'.op = "edit_faculty"
         /\ last'.s = s
         /\ EditFaculty(s, sel, n, "Dean", "S1", d)
         /\ last'.result = "Success")
        => LET owner == session[s].username
               renamed == {k \in DOMAIN data_file :
                              /\ data_file[k].Owner = owner
                              /\ data_file[k].Name = sel[1]
                              /\ data_file[k].SessionDate = sel[2]}
           IN  /\ Len(data_file') = Len(data_file)
               /\ renamed # {}
               /\ \A k \in DOMAIN data_file :
                    IF k \in renamed
                    THEN /\ data_file'[k].Owner = data_file[k].Owner
                         /\ data_file'[k].Item = data_file[k].Item
                         /\ data_file'[k].Status = data_file[k].Status
                         /\ data_file'[k].Remarks = data_file[k].Remarks
                         /\ data_file'[k].Name = strip(n)
                         /\ data_file'[k].Designation = "Dean"
                         /\ data_file'[k].SessionName = "S1"
                         /\ data_file'[k].SessionDate = d
                    ELSE read_csv(data_file')[k] = read_csv(data_file)[k]]_vars

KeyV4(row) == <<row.Name, row.SessionDate, row.Item>>

\* C30: in the v4 application no two rows of the data file hold the same
\* (Name, Session Date, Checklist Item); Save Changes is rejected when the
\* name it would store (stripped) and the new date are those of another
\* visit of the file, and reports an error, not Success, when the file has
\* no row of the visit being edited.
C30_V4UniqueKeys ==
    /\ [](\A i, j \in DOMAIN data_file :
            KeyV4(data_file[i]) = KeyV4(data_file[j]) => i = j)
    /\ [][\A s \in Sessions : \A sel \in faculty_list_v4(session[s]) :
          \A n \in NameInputs, d \in Dates :
            (/\ last'.op = "edit_faculty"
             /\ last'.s = s
             /\ EditFacultyV4(s, sel, n, "Dean", "S1", d))
            => LET taken == /\ <<strip(n), d>> # sel
                            /\ \E i \in DOMAIN data_file :
                                    /\ data_file[i].Name = strip(n)
                                    /\ data_file[i].SessionDate = d
                   found == \E i \in DOMAIN data_file :
                                /\ data_file[i].Name = sel[1]
                                /\ data_file[i].SessionDate = sel[2]
               IN  /\ taken => last'.result # "Success"
                   /\ ~found => last'.result # "Success"]_vars

====
